---- MODULE Spec2Model ----
(***************************************************************************)
(* Model of brozzler/browser.py: the BrowserPool (acquire / release /      *)
(* shutdown_now), the Browser page visit (browse_page, the interval poll   *)
(* and the websocket message handler) and the Chrome process supervisor    *)
(* (Chrome.start / Chrome.stop, driven by Browser.start / Browser.stop).   *)
(*                                                                         *)
(* The three parts share no state in the source, so each has its own       *)
(* specification over the common variable tuple: SpecPool, SpecVisit and   *)
(* SpecChrome.                                                             *)
(***************************************************************************)
EXTENDS Integers, Sequences, FiniteSets, TLC

(***************************************************************************)
(* Bounds                                                                  *)
(***************************************************************************)
\* number of Browsers the pool is constructed with (BrowserPool(size=...))
Size == 2
\* number of concurrent client threads calling into the pool
NumClients == 2

Drivers == 1..Size
Clients == 1..NumClients

VARIABLES
    \* ---- BrowserPool ----
    _available,     \* BrowserPool._available
    _in_use,        \* BrowserPool._in_use
    _lock,          \* BrowserPool._lock: 0 = free, else the client holding it
    cpc,            \* per client: position inside acquire / release
    cbrowser,       \* per client: the local variable / parameter `browser`
    cresult,        \* per client: how its last pool call ended
    abort_flag,     \* per Driver of the pool: Browser._abort_browse_page
    slot,           \* per Driver: its position in the hash table of a set
    sdPc,           \* position of the thread running shutdown_now
    sdUsed,         \* set iterator: size of the set when iteration started
    sdPos,          \* set iterator: next table position to look at
    grants          \* per Driver: acquires that returned it since the last
                    \* release called with it (observer)

VARIABLES
    \* ---- Browser, one page visit after another on one Browser ----
    vpc,            \* position of the thread inside browse_page
    ws,             \* self._websock: "none", "connecting", "connected", "closed"
    command_id,     \* next value of the counter self.command_id
    inflight,       \* commands sent on the websocket whose reply is yet to come
    _waiting_on_screenshot_msg_id,      \* 0 stands for None
    _waiting_on_outlinks_msg_id,        \* 0 stands for None
    _waiting_on_document_url_msg_id,    \* 0 stands for None
    _outlinks,      \* self._outlinks: None or a frozenset of strings
    _behavior,      \* self._behavior: "None", or the Behavior "running" / "finished"
    _abort_browse_page,
    on_screenshot,  \* whether the caller passed an on_screenshot callback
    elapsed,        \* time.time() - self._start, in seconds
    msg_id,         \* value returned by send_to_chrome at line 175, not yet stored
    outcome,        \* how browse_page ended (observer)
    endedBy,        \* the branch of _browse_interval_func that ended it (observer)
    retval,         \* the value browse_page returned (observer)
    loadEvents,     \* Page.loadEventFired events handled in this visit
    screenshotCalls,\* calls of on_screenshot in this visit (observer)
    behaviorStarts, \* Behaviors started in this visit (observer)
    gotOutlinks,    \* an outlinks reply was handled in this visit (observer)
    visits,         \* calls of browse_page so far
    on_request,     \* whether the caller passed an on_request callback
    lastSent,       \* id of the last command written to the websocket (observer)
    abortRequested  \* abort_browse_page() was called since this visit began (observer)

VARIABLES
    \* ---- Browser.start / stop and its Chrome instance ----
    dpc,            \* position of the thread inside Browser.start / Browser.stop
    lastCall,       \* how the last call of start / stop ended (observer)
    startHow,       \* how the start of the current Chrome instance ended (observer)
    _work_dir,      \* Browser._work_dir: "unset", "TemporaryDirectory", "None"
    _chrome_instance,   \* Browser._chrome_instance: "None" or "Chrome"
    chrome_process, \* Chrome.chrome_process: "unset", or the subprocess "alive" / "exited"
    home_dir,       \* the user home directory (the work directory) exists
    data_dir,       \* the user data directory below it exists
    start_elapsed,  \* Chrome.start: time.time() - self._start
    first_sigterm,  \* Chrome.stop: time.time() - first_sigterm
    last_sigterm,   \* Chrome.stop: time.time() - last_sigterm
    sigterms,       \* SIGTERMs sent by the current Chrome.stop (observer)
    killed,         \* the current Chrome.stop sent SIGKILL (observer)
    orphaned,       \* a live subprocess lost its Chrome instance (observer)
    starts          \* calls of Browser.start so far

VARIABLES
    \* ---- what the last Network.requestWillBeSent event led to (observers) ----
    reqToggle,      \* flips at every Network.requestWillBeSent handled
    reqUrl,         \* the request url of the last one
    reqForwarded,   \* on_request was called for it
    reqNotified     \* the Behavior was notified of activity for it

poolVars == <<_available, _in_use, _lock, cpc, cbrowser, cresult, abort_flag,
              slot, sdPc, sdUsed, sdPos, grants>>

visitVars == <<vpc, ws, command_id, inflight, _waiting_on_screenshot_msg_id,
               _waiting_on_outlinks_msg_id, _waiting_on_document_url_msg_id,
               _outlinks, _behavior, _abort_browse_page, on_screenshot, elapsed,
               msg_id, outcome, endedBy, retval, loadEvents,
               screenshotCalls, behaviorStarts, gotOutlinks, visits,
               on_request, lastSent, abortRequested>>

chromeVars == <<dpc, lastCall, startHow, _work_dir, _chrome_instance,
                chrome_process, home_dir, data_dir, start_elapsed, first_sigterm,
                last_sigterm, sigterms, killed, orphaned, starts>>

reqVars == <<reqToggle, reqUrl, reqForwarded, reqNotified>>

vars == <<poolVars, visitVars, chromeVars, reqVars>>

(***************************************************************************)
(* BrowserPool                                                             *)
(***************************************************************************)
\* BrowserPool.__init__: every Browser starts in _available, the lock is free.
\* The table position of a Browser in a set depends on its hash (its
\* address), so any assignment of distinct positions is possible.
InitPool ==
    /\ _available = Drivers
    /\ _in_use = {}
    /\ _lock = 0
    /\ cpc = [c \in Clients |-> "idle"]
    /\ cbrowser = [c \in Clients |-> 0]
    /\ cresult = [c \in Clients |-> "none"]
    /\ abort_flag = [d \in Drivers |-> FALSE]
    /\ slot \in {f \in [Drivers -> Drivers] : \A a, b \in Drivers : a /= b => f[a] /= f[b]}
    /\ sdPc = "idle"
    /\ sdUsed = 0
    /\ sdPos = 0
    /\ grants = [d \in Drivers |-> 0]

\* acquire, `with self._lock:` entered
AcquireEnter(c) ==
    /\ cpc[c] = "idle"
    /\ _lock = 0
    /\ _lock' = c
    /\ cpc' = [cpc EXCEPT ![c] = "acquire_pop"]
    /\ cresult' = [cresult EXCEPT ![c] = "none"]
    /\ UNCHANGED <<_available, _in_use, cbrowser, abort_flag, slot, sdPc, sdUsed, sdPos, grants>>

\* acquire, `browser = self._available.pop()`: an arbitrary element is
\* removed; on an empty set pop raises KeyError and the with block releases
\* the lock.
AcquirePop_NoRemove(c) ==
    /\ cpc[c] = "acquire_pop"
    /\ IF _available = {}
       THEN /\ _lock' = 0
            /\ cpc' = [cpc EXCEPT ![c] = "idle"]
            /\ cresult' = [cresult EXCEPT ![c] = "KeyError"]
            /\ UNCHANGED <<_available, cbrowser>>
       ELSE /\ \E d \in _available :
                 /\ _available' = _available
                 /\ cbrowser' = [cbrowser EXCEPT ![c] = d]
            /\ cpc' = [cpc EXCEPT ![c] = "acquire_add"]
            /\ UNCHANGED <<_lock, cresult>>
    /\ UNCHANGED <<_in_use, abort_flag, slot, sdPc, sdUsed, sdPos, grants>>

AcquirePop_EmptyReturns(c) ==
    /\ cpc[c] = "acquire_pop"
    /\ IF _available = {}
       THEN /\ _lock' = 0
            /\ cpc' = [cpc EXCEPT ![c] = "idle"]
            /\ cresult' = [cresult EXCEPT ![c] = "returned"]
            /\ UNCHANGED <<_available, cbrowser>>
       ELSE /\ \E d \in _available :
                 /\ _available' = _available \ {d}
                 /\ cbrowser' = [cbrowser EXCEPT ![c] = d]
            /\ cpc' = [cpc EXCEPT ![c] = "acquire_add"]
            /\ UNCHANGED <<_lock, cresult>>
    /\ UNCHANGED <<_in_use, abort_flag, slot, sdPc, sdUsed, sdPos, grants>>

AcquirePop(c) ==
    /\ cpc[c] = "acquire_pop"
    /\ IF _available = {}
       THEN /\ _lock' = 0
            /\ cpc' = [cpc EXCEPT ![c] = "idle"]
            /\ cresult' = [cresult EXCEPT ![c] = "KeyError"]
            /\ UNCHANGED <<_available, cbrowser>>
       ELSE /\ \E d \in _available :
                 /\ _available' = _available \ {d}
                 /\ cbrowser' = [cbrowser EXCEPT ![c] = d]
            /\ cpc' = [cpc EXCEPT ![c] = "acquire_add"]
            /\ UNCHANGED <<_lock, cresult>>
    /\ UNCHANGED <<_in_use, abort_flag, slot, sdPc, sdUsed, sdPos, grants>>

\* acquire, `self._in_use.add(browser); return browser` (the lock is released
\* on leaving the with block)
AcquireAdd(c) ==
    /\ cpc[c] = "acquire_add"
    /\ _in_use' = _in_use \cup {cbrowser[c]}
    /\ _lock' = 0
    /\ cpc' = [cpc EXCEPT ![c] = "idle"]
    /\ cresult' = [cresult EXCEPT ![c] = "returned"]
    /\ grants' = [grants EXCEPT ![cbrowser[c]] = @ + 1]
    /\ UNCHANGED <<_available, cbrowser, abort_flag, slot, sdPc, sdUsed, sdPos>>

\* release(browser) called with any Browser of the pool, `with self._lock:`
\* entered
ReleaseEnter(c, d) ==
    /\ cpc[c] = "idle"
    /\ _lock = 0
    /\ _lock' = c
    /\ cbrowser' = [cbrowser EXCEPT ![c] = d]
    /\ cpc' = [cpc EXCEPT ![c] = "release_add"]
    /\ cresult' = [cresult EXCEPT ![c] = "none"]
    /\ grants' = [grants EXCEPT ![d] = 0]
    /\ UNCHANGED <<_available, _in_use, abort_flag, slot, sdPc, sdUsed, sdPos>>

\* release, `self._available.add(browser)`
ReleaseAdd(c) ==
    /\ cpc[c] = "release_add"
    /\ _available' = _available \cup {cbrowser[c]}
    /\ cpc' = [cpc EXCEPT ![c] = "release_remove"]
    /\ UNCHANGED <<_in_use, _lock, cbrowser, cresult, abort_flag, slot, sdPc, sdUsed, sdPos, grants>>

\* release, `self._in_use.remove(browser)`: KeyError when it is not there;
\* either way the with block releases the lock
ReleaseRemove_Skip(c) ==
    /\ cpc[c] = "release_remove"
    /\ _in_use' = _in_use
    /\ cresult' = [cresult EXCEPT ![c] = "returned"]
    /\ _lock' = 0
    /\ cpc' = [cpc EXCEPT ![c] = "idle"]
    /\ UNCHANGED <<_available, cbrowser, abort_flag, slot, sdPc, sdUsed, sdPos, grants>>

ReleaseRemove(c) ==
    /\ cpc[c] = "release_remove"
    /\ IF cbrowser[c] \in _in_use
       THEN /\ _in_use' = _in_use \ {cbrowser[c]}
            /\ cresult' = [cresult EXCEPT ![c] = "returned"]
       ELSE /\ _in_use' = _in_use
            /\ cresult' = [cresult EXCEPT ![c] = "KeyError"]
    /\ _lock' = 0
    /\ cpc' = [cpc EXCEPT ![c] = "idle"]
    /\ UNCHANGED <<_available, cbrowser, abort_flag, slot, sdPc, sdUsed, sdPos, grants>>

\* shutdown_now, `for browser in self._in_use:` creates the set iterator; the
\* lock is not taken
ShutdownStart ==
    /\ sdPc \in {"idle", "done", "RuntimeError"}
    /\ sdPc' = "iterating"
    /\ sdUsed' = Cardinality(_in_use)
    /\ sdPos' = 1
    /\ UNCHANGED <<_available, _in_use, _lock, cpc, cbrowser, cresult, abort_flag, slot, grants>>

\* the Drivers of _in_use at table position p or later
FromPos(p) == {d \in _in_use : slot[d] >= p}

\* shutdown_now, one step of the loop: the iterator raises RuntimeError when
\* the set changed size since the iteration started, else yields the entry at
\* the next occupied position, on which abort_browse_page() is called, or
\* ends the loop
ShutdownNext ==
    /\ sdPc = "iterating"
    /\ IF Cardinality(_in_use) /= sdUsed
       THEN /\ sdPc' = "RuntimeError"
            /\ UNCHANGED <<sdPos, abort_flag>>
       ELSE IF FromPos(sdPos) = {}
       THEN /\ sdPc' = "done"
            /\ UNCHANGED <<sdPos, abort_flag>>
       ELSE LET d == CHOOSE x \in FromPos(sdPos) : \A y \in FromPos(sdPos) : slot[x] <= slot[y]
            IN  /\ abort_flag' = [abort_flag EXCEPT ![d] = TRUE]
                /\ sdPos' = slot[d] + 1
                /\ sdPc' = "iterating"
    /\ UNCHANGED <<_available, _in_use, _lock, cpc, cbrowser, cresult, slot, sdUsed, grants>>

NextPool ==
    \/ \E c \in Clients : AcquireEnter(c) /\ UNCHANGED <<visitVars, chromeVars, reqVars>>
    \/ \E c \in Clients : AcquirePop(c) /\ UNCHANGED <<visitVars, chromeVars, reqVars>>
    \/ \E c \in Clients : AcquireAdd(c) /\ UNCHANGED <<visitVars, chromeVars, reqVars>>
    \/ \E c \in Clients, d \in Drivers : ReleaseEnter(c, d) /\ UNCHANGED <<visitVars, chromeVars, reqVars>>
    \/ \E c \in Clients : ReleaseAdd(c) /\ UNCHANGED <<visitVars, chromeVars, reqVars>>
    \/ \E c \in Clients : ReleaseRemove(c) /\ UNCHANGED <<visitVars, chromeVars, reqVars>>
    \/ ShutdownStart /\ UNCHANGED <<visitVars, chromeVars, reqVars>>
    \/ ShutdownNext /\ UNCHANGED <<visitVars, chromeVars, reqVars>>

(***************************************************************************)
(* Browser: browse_page, _browse_interval_func, _visit_page,               *)
(* _handle_message                                                         *)
(***************************************************************************)
HARD_TIMEOUT_SECONDS == 20 * 60

\* the loop sleeps at least 0.5 s before each call of _browse_interval_func.
\* A modelled tick is a call of _browse_interval_func; between two modelled
\* ticks the clock advances by SleepStep or SleepStep + 1 seconds, so that
\* an elapsed time of exactly the hard timeout and of just more than it are
\* both reached. No tick is modelled once elapsed has reached MaxElapsed.
SleepStep == 600
MaxElapsed == 1202
SleepAdvance == {SleepStep, SleepStep + 1}
\* cap on the command id counter, on Page.loadEventFired events per visit,
\* on browse_page calls and on the length of the string of an outlinks reply
MaxCommandId == 24
MaxLoadEvents == 2
MaxVisits == 2
MaxLen == 3

\* strings are sequences of characters
Chars == {"a", " "}
Strings == UNION {[1..n -> Chars] : n \in 0..MaxLen}

\* Python None / a frozenset, for self._outlinks and the returned value
None == [isNone |-> TRUE, links |-> {}]
FrozenSet(S) == [isNone |-> FALSE, links |-> S]
\* truth value of `if self._outlinks:`
Truthy(o) == ~o.isNone /\ o.links /= {}

\* s.split(" "): the list of the pieces between single spaces, empty pieces
\* included
RECURSIVE Split(_)
Split(s) ==
    IF \A i \in 1..Len(s) : s[i] /= " "
    THEN <<s>>
    ELSE LET i == CHOOSE k \in 1..Len(s) : s[k] = " " /\ \A j \in 1..(k-1) : s[j] /= " "
         IN  <<SubSeq(s, 1, i - 1)>> \o Split(SubSeq(s, i + 1, Len(s)))

\* frozenset(value.split(" "))
OutlinksOf(value) == LET l == Split(value) IN FrozenSet({l[i] : i \in 1..Len(l)})

\* Browser.__init__
InitVisit ==
    /\ vpc = "idle"
    /\ ws = "none"
    /\ command_id = 1
    /\ inflight = {}
    /\ _waiting_on_screenshot_msg_id = 0
    /\ _waiting_on_outlinks_msg_id = 0
    /\ _waiting_on_document_url_msg_id = 0
    /\ _outlinks = None
    /\ _behavior = "None"
    /\ _abort_browse_page = FALSE
    /\ on_screenshot = FALSE
    /\ elapsed = 0
    /\ msg_id = 0
    /\ outcome = "none"
    /\ endedBy = "none"
    /\ retval = None
    /\ loadEvents = 0
    /\ screenshotCalls = 0
    /\ behaviorStarts = 0
    /\ gotOutlinks = FALSE
    /\ visits = 0
    /\ on_request = FALSE
    /\ lastSent = 0
    /\ abortRequested = FALSE

\* abort_browse_page(), from any thread at any time
AbortBrowsePage ==
    /\ _abort_browse_page' = TRUE
    /\ abortRequested' = TRUE
    /\ UNCHANGED <<lastSent, on_request>>
    /\ UNCHANGED <<vpc, ws, command_id, inflight, _waiting_on_screenshot_msg_id,
                   _waiting_on_outlinks_msg_id, _waiting_on_document_url_msg_id,
                   _outlinks, _behavior, on_screenshot, elapsed, msg_id,
                   outcome, endedBy, retval, loadEvents, screenshotCalls,
                   behaviorStarts, gotOutlinks, visits>>

\* variant of browse_page that resets the abort flag with the visit fields
BrowsePage_ClearsAbort(cb, rq) ==
    /\ vpc \in {"idle", "done"}
    /\ on_request' = rq
    /\ abortRequested' = FALSE
    /\ UNCHANGED lastSent
    /\ visits < MaxVisits
    /\ visits' = visits + 1
    /\ on_screenshot' = cb
    /\ _waiting_on_screenshot_msg_id' = 0
    /\ _waiting_on_outlinks_msg_id' = 0
    /\ _outlinks' = None
    /\ _waiting_on_document_url_msg_id' = 0
    /\ ws' = "connecting"
    /\ inflight' = {}
    /\ elapsed' = 0
    /\ vpc' = "polling"
    /\ outcome' = "none"
    /\ endedBy' = "none"
    /\ retval' = None
    /\ loadEvents' = 0
    /\ screenshotCalls' = 0
    /\ behaviorStarts' = 0
    /\ gotOutlinks' = FALSE
    /\ _abort_browse_page' = FALSE
    /\ UNCHANGED <<command_id, _behavior, msg_id>>

\* browse_page up to the try block: the visit fields are reset, a new
\* WebSocketApp is created and its thread started, self._start is taken.
\* self._behavior and self._abort_browse_page are not assigned here.
BrowsePage(cb, rq) ==
    /\ vpc \in {"idle", "done"}
    /\ on_request' = rq
    /\ abortRequested' = FALSE
    /\ UNCHANGED lastSent
    /\ visits < MaxVisits
    /\ visits' = visits + 1
    /\ on_screenshot' = cb
    /\ _waiting_on_screenshot_msg_id' = 0
    /\ _waiting_on_outlinks_msg_id' = 0
    /\ _outlinks' = None
    /\ _waiting_on_document_url_msg_id' = 0
    /\ ws' = "connecting"
    /\ inflight' = {}
    /\ elapsed' = 0
    /\ vpc' = "polling"
    /\ outcome' = "none"
    /\ endedBy' = "none"
    /\ retval' = None
    /\ loadEvents' = 0
    /\ screenshotCalls' = 0
    /\ behaviorStarts' = 0
    /\ gotOutlinks' = FALSE
    /\ UNCHANGED <<command_id, _behavior, _abort_browse_page, msg_id>>

\* websocket thread: the connection is established and on_open runs
\* _visit_page, which sends seven commands whose replies match no slot
WsOpen ==
    /\ ws = "connecting"
    /\ command_id + 6 <= MaxCommandId
    /\ ws' = "connected"
    /\ command_id' = command_id + 7
    /\ lastSent' = command_id + 6
    /\ UNCHANGED <<abortRequested, on_request>>
    /\ UNCHANGED <<vpc, inflight, _waiting_on_screenshot_msg_id,
                   _waiting_on_outlinks_msg_id, _waiting_on_document_url_msg_id,
                   _outlinks, _behavior, _abort_browse_page, on_screenshot,
                   elapsed, msg_id, outcome, endedBy, retval, loadEvents,
                   screenshotCalls, behaviorStarts, gotOutlinks, visits>>

\* the transport dies (chrome exits, the connection fails or is lost)
WsDies ==
    /\ ws \in {"connecting", "connected"}
    /\ vpc \in {"polling", "sending", "recording"}
    /\ UNCHANGED <<lastSent, abortRequested, on_request>>
    /\ ws' = "closed"
    /\ inflight' = {}
    /\ UNCHANGED <<vpc, command_id, _waiting_on_screenshot_msg_id,
                   _waiting_on_outlinks_msg_id, _waiting_on_document_url_msg_id,
                   _outlinks, _behavior, _abort_browse_page, on_screenshot,
                   elapsed, msg_id, outcome, endedBy, retval, loadEvents,
                   screenshotCalls, behaviorStarts, gotOutlinks, visits>>

\* _handle_message, "Page.loadEventFired": two commands are sent and their
\* ids recorded
LoadEventFired ==
    /\ ws = "connected"
    /\ loadEvents < MaxLoadEvents
    /\ command_id + 1 <= MaxCommandId
    /\ loadEvents' = loadEvents + 1
    /\ _waiting_on_screenshot_msg_id' = command_id
    /\ _waiting_on_document_url_msg_id' = command_id + 1
    /\ command_id' = command_id + 2
    /\ lastSent' = command_id + 1
    /\ UNCHANGED <<abortRequested, on_request>>
    /\ inflight' = inflight \cup {command_id, command_id + 1}
    /\ UNCHANGED <<vpc, ws, _waiting_on_outlinks_msg_id, _outlinks, _behavior,
                   _abort_browse_page, on_screenshot, elapsed, msg_id,
                   outcome, endedBy, retval, screenshotCalls, behaviorStarts,
                   gotOutlinks, visits>>

\* the string values the reply to command id can carry; only the value of a
\* reply routed as the outlinks reply is looked at
ResultValues(id) == IF id = _waiting_on_outlinks_msg_id THEN Strings ELSE {<<>>}

\* _handle_message, a message with "result": the reply to command id, carrying
\* the string value (used when it is routed as the outlinks reply)
HandleResult(id, value) ==
    /\ ws = "connected"
    /\ id \in inflight
    /\ UNCHANGED <<lastSent, abortRequested, on_request>>
    /\ inflight' = inflight \ {id}
    /\ IF id = _waiting_on_screenshot_msg_id
       THEN /\ screenshotCalls' = IF on_screenshot THEN screenshotCalls + 1 ELSE screenshotCalls
            /\ _waiting_on_screenshot_msg_id' = 0
            /\ _behavior' = "running"
            /\ behaviorStarts' = behaviorStarts + 1
            /\ UNCHANGED <<_outlinks, gotOutlinks, _waiting_on_document_url_msg_id>>
       ELSE IF id = _waiting_on_outlinks_msg_id
       THEN /\ _outlinks' = OutlinksOf(value)
            /\ gotOutlinks' = TRUE
            /\ UNCHANGED <<screenshotCalls, _waiting_on_screenshot_msg_id, _behavior,
                           behaviorStarts, _waiting_on_document_url_msg_id>>
       ELSE IF id = _waiting_on_document_url_msg_id
       THEN /\ _waiting_on_document_url_msg_id' = 0
            /\ UNCHANGED <<screenshotCalls, _waiting_on_screenshot_msg_id, _behavior,
                           behaviorStarts, _outlinks, gotOutlinks>>
       ELSE UNCHANGED <<screenshotCalls, _waiting_on_screenshot_msg_id, _behavior,
                        behaviorStarts, _outlinks, gotOutlinks,
                        _waiting_on_document_url_msg_id>>
    /\ UNCHANGED <<vpc, ws, command_id, _waiting_on_outlinks_msg_id,
                   _abort_browse_page, on_screenshot, elapsed, msg_id,
                   outcome, endedBy, retval, loadEvents, visits>>

\* urls are sequences of characters; the request urls tried
RequestUrls ==
    { <<"d", "a", "t", "a", ":", "x">>,
      <<"D", "A", "T", "A", ":">>,
      <<"D", "a", "t", "A", ":", "x">>,
      <<"x", "d", "a", "t", "a", ":">>,
      <<"d", "a", "t", "a">>,
      <<"d", "a", "t", ":", "a">>,
      <<"x", ":">>,
      <<>> }

\* str.lower() on the letters that occur
LowerChar(c) ==
    CASE c = "D" -> "d"
      [] c = "A" -> "a"
      [] c = "T" -> "t"
      [] OTHER -> c
Lower(s) == [i \in 1..Len(s) |-> LowerChar(s[i])]

\* s.startswith(p)
StartsWith(s, p) == Len(s) >= Len(p) /\ SubSeq(s, 1, Len(p)) = p

\* no observation of a request event yet
InitReq ==
    /\ reqToggle = FALSE
    /\ reqUrl = <<>>
    /\ reqForwarded = FALSE
    /\ reqNotified = FALSE

\* _handle_message, "Network.requestWillBeSent" with request url `url`: the
\* Behavior, if there is one, is notified; a url that starts with "data:"
\* once lowered is ignored, any other is passed to on_request if that is set
RequestWillBeSent_CaseSensitive(url) ==
    /\ ws = "connected"
    /\ reqToggle' = ~reqToggle
    /\ reqUrl' = url
    /\ reqNotified' = (_behavior /= "None")
    /\ reqForwarded' = IF StartsWith(url, <<"d", "a", "t", "a", ":">>)
                       THEN FALSE
                       ELSE on_request
    /\ UNCHANGED visitVars

RequestWillBeSent(url) ==
    /\ ws = "connected"
    /\ reqToggle' = ~reqToggle
    /\ reqUrl' = url
    /\ reqNotified' = (_behavior /= "None")
    /\ reqForwarded' = IF StartsWith(Lower(url), <<"d", "a", "t", "a", ":">>)
                       THEN FALSE
                       ELSE on_request
    /\ UNCHANGED visitVars

\* the Behavior (external) comes to report is_finished() = True
BehaviorFinishes ==
    /\ _behavior = "running"
    /\ _behavior' = "finished"
    /\ UNCHANGED <<lastSent, abortRequested, on_request>>
    /\ UNCHANGED <<vpc, ws, command_id, inflight, _waiting_on_screenshot_msg_id,
                   _waiting_on_outlinks_msg_id, _waiting_on_document_url_msg_id,
                   _outlinks, _abort_browse_page, on_screenshot, elapsed, msg_id,
                   outcome, endedBy, retval, loadEvents, screenshotCalls,
                   behaviorStarts, gotOutlinks, visits>>

\* the way a tick leaves the loop of browse_page: the result is fixed and the
\* finally block is entered
EndVisit(how, branch, value) ==
    /\ vpc' = "finally"
    /\ outcome' = how
    /\ endedBy' = branch
    /\ retval' = value
    /\ UNCHANGED <<command_id, inflight, msg_id>>

\* variant of the tick that takes a websocket still connecting for alive
Tick_ToleratesConnecting ==
    /\ vpc = "polling"
    /\ elapsed < MaxElapsed
    /\ \E d \in SleepAdvance : elapsed' = elapsed + d
    /\ UNCHANGED <<lastSent, abortRequested, on_request>>
    /\ IF ws \notin {"connected", "connecting"}
       THEN EndVisit("BrowsingException", "websocket_closed", None)
       ELSE IF _behavior = "finished"
       THEN IF Truthy(_outlinks)
            THEN EndVisit("returned", "got_outlinks", _outlinks)
            ELSE IF _waiting_on_outlinks_msg_id = 0
            THEN \* send_to_chrome is entered: msg_id = next(self.command_id)
                 /\ command_id <= MaxCommandId
                 /\ msg_id' = command_id
                 /\ command_id' = command_id + 1
                 /\ vpc' = "sending"
                 /\ UNCHANGED <<outcome, endedBy, retval, inflight>>
            ELSE \* no branch applies: the function returns None
                 UNCHANGED <<vpc, outcome, endedBy, retval, command_id, inflight, msg_id>>
       ELSE IF elapsed' > HARD_TIMEOUT_SECONDS
       THEN EndVisit("returned", "hard_timeout", _outlinks)
       ELSE IF _abort_browse_page
       THEN EndVisit("BrowsingAborted", "abort", None)
       ELSE UNCHANGED <<vpc, outcome, endedBy, retval, command_id, inflight, msg_id>>
    /\ UNCHANGED <<ws, _waiting_on_screenshot_msg_id, _waiting_on_outlinks_msg_id,
                   _waiting_on_document_url_msg_id, _outlinks, _behavior,
                   _abort_browse_page, on_screenshot, loadEvents, screenshotCalls,
                   behaviorStarts, gotOutlinks, visits>>

\* one turn of the loop of browse_page: time.sleep(0.5), then
\* _browse_interval_func, whose if / elif chain is followed branch by branch
Tick ==
    /\ vpc = "polling"
    /\ elapsed < MaxElapsed
    /\ \E d \in SleepAdvance : elapsed' = elapsed + d
    /\ UNCHANGED <<lastSent, abortRequested, on_request>>
    /\ IF ws /= "connected"
       THEN EndVisit("BrowsingException", "websocket_closed", None)
       ELSE IF _behavior = "finished"
       THEN IF Truthy(_outlinks)
            THEN EndVisit("returned", "got_outlinks", _outlinks)
            ELSE IF _waiting_on_outlinks_msg_id = 0
            THEN \* send_to_chrome is entered: msg_id = next(self.command_id)
                 /\ command_id <= MaxCommandId
                 /\ msg_id' = command_id
                 /\ command_id' = command_id + 1
                 /\ vpc' = "sending"
                 /\ UNCHANGED <<outcome, endedBy, retval, inflight>>
            ELSE \* no branch applies: the function returns None
                 UNCHANGED <<vpc, outcome, endedBy, retval, command_id, inflight, msg_id>>
       ELSE IF elapsed' > HARD_TIMEOUT_SECONDS
       THEN EndVisit("returned", "hard_timeout", _outlinks)
       ELSE IF _abort_browse_page
       THEN EndVisit("BrowsingAborted", "abort", None)
       ELSE UNCHANGED <<vpc, outcome, endedBy, retval, command_id, inflight, msg_id>>
    /\ UNCHANGED <<ws, _waiting_on_screenshot_msg_id, _waiting_on_outlinks_msg_id,
                   _waiting_on_document_url_msg_id, _outlinks, _behavior,
                   _abort_browse_page, on_screenshot, loadEvents, screenshotCalls,
                   behaviorStarts, gotOutlinks, visits>>

\* send_to_chrome called from line 175, after the id was taken:
\* self._websock.send(msg); return msg_id. The send raises
\* WebSocketConnectionClosedException on a websocket that is not connected,
\* which leaves browse_page through the finally block.
PollerSend ==
    /\ vpc = "sending"
    /\ IF ws = "connected"
       THEN /\ inflight' = inflight \cup {msg_id}
            /\ lastSent' = msg_id
            /\ vpc' = "recording"
            /\ UNCHANGED <<outcome, endedBy, retval, msg_id>>
       ELSE /\ vpc' = "finally"
            /\ outcome' = "WebSocketConnectionClosedException"
            /\ endedBy' = "send_failed"
            /\ retval' = None
            /\ msg_id' = 0
            /\ UNCHANGED <<inflight, lastSent>>
    /\ UNCHANGED <<ws, command_id, _waiting_on_screenshot_msg_id,
                   _waiting_on_outlinks_msg_id, _waiting_on_document_url_msg_id,
                   _outlinks, _behavior, _abort_browse_page, on_screenshot,
                   elapsed, loadEvents, screenshotCalls, behaviorStarts,
                   gotOutlinks, visits, abortRequested, on_request>>

\* line 175, the assignment: self._waiting_on_outlinks_msg_id = <the id>;
\* return False
RecordOutlinksMsgId ==
    /\ vpc = "recording"
    /\ UNCHANGED <<lastSent, abortRequested, on_request>>
    /\ _waiting_on_outlinks_msg_id' = msg_id
    /\ msg_id' = 0
    /\ vpc' = "polling"
    /\ UNCHANGED <<ws, command_id, inflight, _waiting_on_screenshot_msg_id,
                   _waiting_on_document_url_msg_id, _outlinks, _behavior,
                   _abort_browse_page, on_screenshot, elapsed, outcome,
                   endedBy, retval, loadEvents, screenshotCalls, behaviorStarts,
                   gotOutlinks, visits>>

\* the finally block of browse_page: the websocket is closed if it is
\* connected, the thread joined, self._behavior cleared
Teardown_NoClose ==
    /\ vpc = "finally"
    /\ UNCHANGED <<lastSent, abortRequested, on_request>>
    /\ ws' = ws
    /\ inflight' = inflight
    /\ _behavior' = "None"
    /\ vpc' = "done"
    /\ UNCHANGED <<command_id, _waiting_on_screenshot_msg_id,
                   _waiting_on_outlinks_msg_id, _waiting_on_document_url_msg_id,
                   _outlinks, _abort_browse_page, on_screenshot, elapsed, msg_id,
                   outcome, endedBy, retval, loadEvents, screenshotCalls,
                   behaviorStarts, gotOutlinks, visits>>

Teardown ==
    /\ vpc = "finally"
    /\ UNCHANGED <<lastSent, abortRequested, on_request>>
    /\ ws' = IF ws = "connected" THEN "closed" ELSE ws
    /\ inflight' = IF ws = "connected" THEN {} ELSE inflight
    /\ _behavior' = "None"
    /\ vpc' = "done"
    /\ UNCHANGED <<command_id, _waiting_on_screenshot_msg_id,
                   _waiting_on_outlinks_msg_id, _waiting_on_document_url_msg_id,
                   _outlinks, _abort_browse_page, on_screenshot, elapsed, msg_id,
                   outcome, endedBy, retval, loadEvents, screenshotCalls,
                   behaviorStarts, gotOutlinks, visits>>

NextVisit ==
    \/ AbortBrowsePage /\ UNCHANGED <<poolVars, chromeVars, reqVars>>
    \/ \E cb \in BOOLEAN : BrowsePage(cb, FALSE) /\ UNCHANGED <<poolVars, chromeVars, reqVars>>
    \/ WsOpen /\ UNCHANGED <<poolVars, chromeVars, reqVars>>
    \/ WsDies /\ UNCHANGED <<poolVars, chromeVars, reqVars>>
    \/ LoadEventFired /\ UNCHANGED <<poolVars, chromeVars, reqVars>>
    \/ \E id \in inflight : \E value \in ResultValues(id) : HandleResult(id, value) /\ UNCHANGED <<poolVars, chromeVars, reqVars>>
    \/ BehaviorFinishes /\ UNCHANGED <<poolVars, chromeVars, reqVars>>
    \/ Tick /\ UNCHANGED <<poolVars, chromeVars, reqVars>>
    \/ PollerSend /\ UNCHANGED <<poolVars, chromeVars, reqVars>>
    \/ RecordOutlinksMsgId /\ UNCHANGED <<poolVars, chromeVars, reqVars>>
    \/ Teardown /\ UNCHANGED <<poolVars, chromeVars, reqVars>>

\* the websocket thread of a visit with its event handlers, the polling
\* thread not scheduled: the handler of Network.requestWillBeSent reads
\* self._behavior and self.on_request, which the polling loop does not write
NextReader ==
    \/ \E cb, rq \in BOOLEAN : BrowsePage(cb, rq) /\ UNCHANGED <<poolVars, chromeVars, reqVars>>
    \/ WsOpen /\ UNCHANGED <<poolVars, chromeVars, reqVars>>
    \/ WsDies /\ UNCHANGED <<poolVars, chromeVars, reqVars>>
    \/ LoadEventFired /\ UNCHANGED <<poolVars, chromeVars, reqVars>>
    \/ \E id \in inflight : \E value \in ResultValues(id) : HandleResult(id, value) /\ UNCHANGED <<poolVars, chromeVars, reqVars>>
    \/ BehaviorFinishes /\ UNCHANGED <<poolVars, chromeVars, reqVars>>
    \/ \E url \in RequestUrls : RequestWillBeSent(url) /\ UNCHANGED <<poolVars, chromeVars>>

(***************************************************************************)
(* Browser.start / Browser.stop and Chrome.start / Chrome.stop             *)
(***************************************************************************)
\* timeout_sec of Chrome.start and of Chrome.stop, and the seconds after
\* which Chrome.stop repeats SIGTERM
start_timeout_sec == 600
stop_timeout_sec == 300
resend_sigterm_sec == 10

\* Both loops sleep 0.5 s per turn. A modelled turn of the loop of
\* Chrome.start finds the clock advanced by StartStep or StartStep + 1
\* seconds, one of Chrome.stop by StopStep or StopLeap seconds.
StartStep == 300
StopStep == 6
StopLeap == 150
StartAdvance == {StartStep, StartStep + 1}
StopAdvance == {StopStep, StopLeap}
\* cap on the calls of Browser.start
MaxStarts == 2

\* Browser.__init__: no Chrome instance; the attribute _work_dir is not set
InitChrome ==
    /\ dpc = "idle"
    /\ lastCall = "none"
    /\ startHow = "none"
    /\ _work_dir = "unset"
    /\ _chrome_instance = "None"
    /\ chrome_process = "unset"
    /\ home_dir = FALSE
    /\ data_dir = FALSE
    /\ start_elapsed = 0
    /\ first_sigterm = 0
    /\ last_sigterm = 0
    /\ sigterms = 0
    /\ killed = FALSE
    /\ orphaned = FALSE
    /\ starts = 0

\* Browser.start up to the loop of Chrome.start: a new TemporaryDirectory
\* (the one replaced, if any, is cleaned up when its object is dropped), a
\* new Chrome instance (the one replaced, if any, is dropped with its
\* subprocess as it is), then subprocess.Popen, which starts the subprocess
\* (spawned) or raises
BrowserStart(spawned) ==
    /\ dpc = "idle"
    /\ starts < MaxStarts
    /\ starts' = starts + 1
    /\ _work_dir' = "TemporaryDirectory"
    /\ home_dir' = TRUE
    /\ _chrome_instance' = "Chrome"
    /\ orphaned' = (orphaned \/ chrome_process = "alive")
    /\ start_elapsed' = 0
    /\ IF spawned
       THEN /\ chrome_process' = "alive"
            /\ data_dir' = TRUE
            /\ dpc' = "chrome_start"
            /\ lastCall' = "none"
            /\ startHow' = "none"
       ELSE /\ chrome_process' = "unset"
            /\ data_dir' = FALSE
            /\ dpc' = "idle"
            /\ lastCall' = "start_raised"
            /\ startHow' = "spawn_failed"
    /\ UNCHANGED <<first_sigterm, last_sigterm, sigterms, killed>>

\* one turn of the loop of Chrome.start: the request to the json endpoint
\* finds the websocket url (ready) or not; the finally clause then raises if
\* more than timeout_sec have elapsed, also over a `return url`; otherwise the
\* url is returned or the loop goes on
ChromeStartPoll_DropInstance(ready) ==
    /\ dpc = "chrome_start"
    /\ ready => chrome_process = "alive"
    /\ \E d \in StartAdvance : start_elapsed' = start_elapsed + d
    /\ IF start_elapsed' > start_timeout_sec
       THEN /\ dpc' = "idle"
            /\ lastCall' = "start_raised"
            /\ startHow' = "timeout"
            /\ _chrome_instance' = "None"
       ELSE IF ready
       THEN /\ dpc' = "idle"
            /\ lastCall' = "start_returned"
            /\ startHow' = "ok"
            /\ UNCHANGED _chrome_instance
       ELSE UNCHANGED <<dpc, lastCall, startHow, _chrome_instance>>
    /\ UNCHANGED <<_work_dir, chrome_process, home_dir, data_dir,
                   first_sigterm, last_sigterm, sigterms, killed, orphaned, starts>>

ChromeStartPoll(ready) ==
    /\ dpc = "chrome_start"
    /\ ready => chrome_process = "alive"
    /\ \E d \in StartAdvance : start_elapsed' = start_elapsed + d
    /\ IF start_elapsed' > start_timeout_sec
       THEN /\ dpc' = "idle"
            /\ lastCall' = "start_raised"
            /\ startHow' = "timeout"
       ELSE IF ready
       THEN /\ dpc' = "idle"
            /\ lastCall' = "start_returned"
            /\ startHow' = "ok"
       ELSE UNCHANGED <<dpc, lastCall, startHow>>
    /\ UNCHANGED <<_work_dir, _chrome_instance, chrome_process, home_dir, data_dir,
                   first_sigterm, last_sigterm, sigterms, killed, orphaned, starts>>

\* the subprocess exits, by itself or on a signal it got
ProcessExits ==
    /\ chrome_process = "alive"
    /\ chrome_process' = "exited"
    /\ UNCHANGED <<dpc, lastCall, startHow, _work_dir, _chrome_instance, home_dir,
                   data_dir, start_elapsed, first_sigterm, last_sigterm, sigterms,
                   killed, orphaned, starts>>

\* Browser.stop, lines 106-108: `if self._work_dir:` raises AttributeError
\* when start was never called; else the directory, which holds the user
\* home and the user data directory, is removed
WorkDirCleanup ==
    IF _work_dir = "unset"
    THEN /\ lastCall' = "stop_raised"
         /\ UNCHANGED <<_work_dir, home_dir, data_dir>>
    ELSE /\ lastCall' = "stop_returned"
         /\ _work_dir' = "None"
         /\ home_dir' = IF _work_dir = "TemporaryDirectory" THEN FALSE ELSE home_dir
         /\ data_dir' = IF _work_dir = "TemporaryDirectory" THEN FALSE ELSE data_dir

\* Browser.stop called: with a Chrome instance, Chrome.stop is entered, which
\* raises AttributeError if Popen never set chrome_process, else sends
\* SIGTERM and takes the time; with no Chrome instance only the work
\* directory is handled
BrowserStop ==
    /\ dpc = "idle"
    /\ IF _chrome_instance = "Chrome"
       THEN IF chrome_process = "unset"
            THEN /\ lastCall' = "stop_raised"
                 /\ UNCHANGED <<dpc, _work_dir, home_dir, data_dir, first_sigterm,
                                last_sigterm, sigterms, killed>>
            ELSE /\ dpc' = "chrome_stop"
                 /\ lastCall' = "none"
                 /\ first_sigterm' = 0
                 /\ last_sigterm' = 0
                 /\ sigterms' = 1
                 /\ killed' = FALSE
                 /\ UNCHANGED <<_work_dir, home_dir, data_dir>>
       ELSE /\ WorkDirCleanup
            /\ UNCHANGED <<dpc, first_sigterm, last_sigterm, sigterms, killed>>
    /\ UNCHANGED <<startHow, _chrome_instance, chrome_process, start_elapsed,
                   orphaned, starts>>

\* one turn of the loop of Chrome.stop: sleep, poll; return if the subprocess
\* has exited, else SIGTERM again once more than 10 s passed since the last
ChromeStopPoll ==
    /\ dpc = "chrome_stop"
    /\ first_sigterm < stop_timeout_sec
    /\ \E d \in StopAdvance :
         /\ first_sigterm' = first_sigterm + d
         /\ IF chrome_process = "exited"
            THEN /\ dpc' = "stop_cleanup"
                 /\ last_sigterm' = last_sigterm + d
                 /\ UNCHANGED sigterms
            ELSE IF last_sigterm + d > resend_sigterm_sec
            THEN /\ sigterms' = sigterms + 1
                 /\ last_sigterm' = 0
                 /\ UNCHANGED dpc
            ELSE /\ last_sigterm' = last_sigterm + d
                 /\ UNCHANGED <<dpc, sigterms>>
    /\ UNCHANGED <<lastCall, startHow, _work_dir, _chrome_instance, chrome_process,
                   home_dir, data_dir, start_elapsed, killed, orphaned, starts>>

\* Chrome.stop after the loop: SIGKILL, wait() reaps the subprocess, return
ChromeStopKill_NoKill ==
    /\ dpc = "chrome_stop"
    /\ first_sigterm >= stop_timeout_sec
    /\ killed' = TRUE
    /\ chrome_process' = chrome_process
    /\ dpc' = "stop_cleanup"
    /\ UNCHANGED <<lastCall, startHow, _work_dir, _chrome_instance, home_dir,
                   data_dir, start_elapsed, first_sigterm, last_sigterm, sigterms,
                   orphaned, starts>>

ChromeStopKill ==
    /\ dpc = "chrome_stop"
    /\ first_sigterm >= stop_timeout_sec
    /\ killed' = TRUE
    /\ chrome_process' = "exited"
    /\ dpc' = "stop_cleanup"
    /\ UNCHANGED <<lastCall, startHow, _work_dir, _chrome_instance, home_dir,
                   data_dir, start_elapsed, first_sigterm, last_sigterm, sigterms,
                   orphaned, starts>>

\* Browser.stop after Chrome.stop returned, lines 105-108
BrowserStopCleanup ==
    /\ dpc = "stop_cleanup"
    /\ _chrome_instance' = "None"
    /\ WorkDirCleanup
    /\ dpc' = "idle"
    /\ UNCHANGED <<startHow, chrome_process, start_elapsed, first_sigterm,
                   last_sigterm, sigterms, killed, orphaned, starts>>

NextChrome ==
    \/ \E spawned \in BOOLEAN : BrowserStart(spawned) /\ UNCHANGED <<poolVars, visitVars, reqVars>>
    \/ \E ready \in BOOLEAN : ChromeStartPoll(ready) /\ UNCHANGED <<poolVars, visitVars, reqVars>>
    \/ ProcessExits /\ UNCHANGED <<poolVars, visitVars, reqVars>>
    \/ BrowserStop /\ UNCHANGED <<poolVars, visitVars, reqVars>>
    \/ ChromeStopPoll /\ UNCHANGED <<poolVars, visitVars, reqVars>>
    \/ ChromeStopKill /\ UNCHANGED <<poolVars, visitVars, reqVars>>
    \/ BrowserStopCleanup /\ UNCHANGED <<poolVars, visitVars, reqVars>>

Init == InitPool /\ InitVisit /\ InitChrome /\ InitReq

SpecPool == Init /\ [][NextPool]_vars

\* the visits of one Browser; the pool stays as constructed
InitOneBrowser == Init /\ slot = [d \in Drivers |-> d]

SpecVisit == InitOneBrowser /\ [][NextVisit]_vars

\* the starts and stops of one Browser
SpecChrome == InitOneBrowser /\ [][NextChrome]_vars

\* the websocket thread of one visit
SpecReader == InitOneBrowser /\ [][NextReader]_vars

(***************************************************************************)
(* Claims about the pool                                                   *)
(***************************************************************************)
\* no pool operation is inside its critical section
PoolQuiescent == _lock = 0

\* C1: whenever no acquire or release is inside its critical section (that
\* is, after any sequence of acquire, release and shutdown_now calls,
\* including a release of a Driver that is already available), the available
\* set and the in-use set are disjoint and together hold exactly Size Drivers.
C1_PoolPartition ==
    PoolQuiescent =>
        /\ _available \cap _in_use = {}
        /\ Cardinality(_available \cup _in_use) = Size

\* witness of C1: a release of a Driver that was already available has ended
\* (with KeyError) while another Driver is in use
C1_Witness ==
    /\ PoolQuiescent
    /\ \E c \in Clients : cresult[c] = "KeyError" /\ cbrowser[c] \in _available
    /\ _in_use /= {}
    /\ \E d \in Drivers : abort_flag[d]

\* C6: no Driver is held by two clients at once: a Driver returned by acquire
\* is not returned by another acquire until release has been called with it,
\* and (outside the critical sections) a Driver is in the in-use set exactly
\* when an acquire returned it and no release was called with it since.
C6_NoDoubleHold ==
    \A d \in Drivers :
        /\ grants[d] <= 1
        /\ PoolQuiescent => (d \in _in_use <=> grants[d] = 1)

\* witness of C6: both Drivers are handed out, to different clients' calls,
\* after a Driver went through an acquire and a release
C6_Witness ==
    /\ PoolQuiescent
    /\ _in_use = Drivers
    /\ \A d \in Drivers : grants[d] = 1
    /\ \E c \in Clients : cresult[c] = "returned" /\ cpc[c] = "idle"

\* C7: shutdown_now completes without error also when acquire or release run
\* concurrently with it, and never looks at the in-use set while another
\* operation is changing it.
C7_ShutdownCompletes == sdPc /= "RuntimeError"

\* C11: an acquire that finds the available set empty fails with KeyError
\* (the pool-empty error) and leaves both sets as they were; an acquire that
\* finds it non-empty goes on to return one of its Drivers; and a release of
\* an in-use Driver leaves the available set non-empty, so that the next
\* acquire succeeds.
C11_AcquireOnEmptyPool ==
    [][\A c \in Clients :
        /\ (cpc[c] = "acquire_pop" /\ cpc'[c] /= "acquire_pop") =>
              IF _available = {}
              THEN /\ cresult'[c] = "KeyError"
                   /\ cpc'[c] = "idle"
                   /\ _available' = _available
                   /\ _in_use' = _in_use
              ELSE /\ cpc'[c] = "acquire_add"
                   /\ cbrowser'[c] \in _available
        /\ (cpc[c] = "release_remove" /\ cpc'[c] = "idle" /\ cresult'[c] = "returned") =>
              /\ cbrowser[c] \in _available'
              /\ cbrowser[c] \notin _in_use'
       ]_vars

\* witness of C11: with every Driver in use, a client that never held or
\* released a Driver has had its acquire fail with KeyError
C11_Witness ==
    /\ PoolQuiescent
    /\ _available = {}
    /\ _in_use = Drivers
    /\ \E c \in Clients : cresult[c] = "KeyError" /\ cbrowser[c] = 0 /\ cpc[c] = "idle"

(***************************************************************************)
(* Claims about the page visit                                             *)
(***************************************************************************)
\* a step that is a call of _browse_interval_func
IsTick == vpc = "polling" /\ elapsed' /= elapsed

\* the tick is the one that issues the outlink query
IssuesQuery == _behavior = "finished" /\ ~Truthy(_outlinks) /\ _waiting_on_outlinks_msg_id = 0

\* C2: once abort_browse_page() was called during a visit, the next interval
\* tick makes browse_page raise BrowsingAborted, in whatever state the visit
\* is, the state with the behavior finished and the outlink query outstanding
\* included. (Stated for the ticks at which nothing that the polling order
\* puts before the abort check applies: the websocket is connected, no
\* outlinks are captured, no outlink query is to be issued, the hard timeout
\* is not reached.)
C2_AbortRaisesAtNextTick ==
    [][(/\ IsTick
        /\ _abort_browse_page
        /\ ws = "connected"
        /\ elapsed' <= HARD_TIMEOUT_SECONDS
        /\ _outlinks.isNone
        /\ ~IssuesQuery)
       => (vpc' = "finally" /\ outcome' = "BrowsingAborted")]_vars

\* C3: an interval tick that finds more than the hard timeout elapsed, on a
\* visit whose websocket is connected and which is not aborted, ends the
\* visit, whatever the progress of the behavior, also when the behavior is
\* finished and the reply to the outlink query has not come. (The tick that
\* issues the outlink query, which the polling order puts before the timeout
\* check, is left out.)
C3_HardTimeoutEndsVisit ==
    [][(/\ IsTick
        /\ ws = "connected"
        /\ ~_abort_browse_page
        /\ elapsed' > HARD_TIMEOUT_SECONDS
        /\ ~IssuesQuery)
       => vpc' = "finally"]_vars

\* C4: a browse_page call that ended by the hard timeout before any outlinks
\* reply was handled returned the empty set.
C4_TimeoutReturnsEmptySet ==
    (vpc \in {"finally", "done"} /\ endedBy = "hard_timeout" /\ ~gotOutlinks)
        => retval = FrozenSet({})

\* C5: within one visit on_screenshot is called at most once, and a Behavior
\* is started only after that call.
C5_ScreenshotOnceBeforeBehavior ==
    /\ screenshotCalls <= 1
    /\ (on_screenshot /\ behaviorStarts > 0) => screenshotCalls >= 1

\* C8: a set of outlinks returned by browse_page holds only non-empty
\* strings (a set has no duplicates).
C8_OutlinksNonEmptyStrings ==
    (vpc \in {"finally", "done"} /\ outcome = "returned" /\ ~retval.isNone)
        => \A s \in retval.links : Len(s) > 0

\* the thread is inside the loop of browse_page
InLoop == vpc \in {"polling", "sending", "recording"}

C15_CommandIdsIncreaseOnTheWire ==
    [][lastSent' /= lastSent =>
        LET first == IF vpc = "sending" /\ vpc' = "recording" THEN msg_id ELSE command_id
        IN  /\ first > lastSent
            /\ lastSent = 0 => first = 1
      ]_vars

\* the replies handled by the step (a step of _handle_message takes one
\* reply out of inflight and leaves the websocket connected)
Handled == IF ws' = "connected" THEN inflight \ inflight' ELSE {}

\* C16: when the reply whose id is recorded in one of the three waiting-on
\* slots is handled, that slot is None after the same step.
C16_SlotClearedWithReply ==
    [][\A id \in Handled :
        /\ id = _waiting_on_screenshot_msg_id => _waiting_on_screenshot_msg_id' = 0
        /\ id = _waiting_on_outlinks_msg_id => _waiting_on_outlinks_msg_id' = 0
        /\ id = _waiting_on_document_url_msg_id => _waiting_on_document_url_msg_id' = 0
      ]_vars

\* C17: under every interleaving of the websocket thread and the polling
\* thread, the reply to the outlink query the poller has sent is routed as
\* the outlinks reply and the outlinks are stored from it, also when it is
\* handled before the poller has recorded the id of the query.
C17_OutlinksReplyRecognised ==
    [][\A id \in Handled :
        (id = _waiting_on_outlinks_msg_id \/ (vpc = "recording" /\ id = msg_id))
            => (gotOutlinks' /\ ~_outlinks'.isNone)
      ]_vars

\* C18: at each interval tick the conditions are taken in this order and
\* the first that applies decides the tick: websocket not connected (raise
\* BrowsingException), behavior finished with outlinks (return), behavior
\* finished with no outlink query pending (issue the query), hard timeout
\* elapsed (return), abort flag set (raise BrowsingAborted); else the loop
\* goes on.
C18_TickOrder ==
    [][IsTick =>
        IF ws /= "connected"
        THEN vpc' = "finally" /\ outcome' = "BrowsingException"
        ELSE IF _behavior = "finished" /\ Truthy(_outlinks)
        THEN vpc' = "finally" /\ outcome' = "returned" /\ endedBy' = "got_outlinks"
        ELSE IF _behavior = "finished" /\ _waiting_on_outlinks_msg_id = 0
        THEN vpc' = "sending"
        ELSE IF elapsed' > HARD_TIMEOUT_SECONDS
        THEN vpc' = "finally" /\ outcome' = "returned" /\ endedBy' = "hard_timeout"
        ELSE IF _abort_browse_page
        THEN vpc' = "finally" /\ outcome' = "BrowsingAborted"
        ELSE vpc' = "polling"
      ]_vars

\* C19: the abort flag set by abort_browse_page() is never cleared, neither
\* when browse_page starts nor when it ends; a tick of any later visit that
\* reaches the abort test (websocket connected, behavior not finished, hard
\* timeout not elapsed) raises BrowsingAborted, requested in this visit or
\* not.
C19_AbortFlagNeverCleared ==
    [][/\ _abort_browse_page => _abort_browse_page'
       /\ (/\ IsTick
           /\ _abort_browse_page
           /\ ws = "connected"
           /\ _behavior /= "finished"
           /\ elapsed' <= HARD_TIMEOUT_SECONDS)
              => (vpc' = "finally" /\ outcome' = "BrowsingAborted")
      ]_vars

\* a second visit ended by BrowsingAborted with no abort requested in it
C19_Witness ==
    /\ visits = 2
    /\ vpc \in {"finally", "done"}
    /\ outcome = "BrowsingAborted"
    /\ ~abortRequested

ChromeStopReturned == dpc = "stop_cleanup"
\* Browser.stop has returned
BrowserStopReturned == dpc = "idle" /\ lastCall = "stop_returned"
\* Browser.start has failed by the startup timeout of Chrome.start
StartTimedOut == dpc = "idle" /\ lastCall = "start_raised" /\ startHow = "timeout"

\* C9 as stated: once Chrome.stop() has returned, on whichever path, the
\* subprocess is not alive and both temporary directories are deleted.
C9_ChromeStopDeletesDirs ==
    ChromeStopReturned =>
        /\ chrome_process /= "alive"
        /\ ~home_dir
        /\ ~data_dir

\* C9 as amended: once Chrome.stop() has returned, on whichever path, the
\* subprocess of that Chrome instance is not alive; the two temporary
\* directories are deleted by Browser.stop right after, so that once
\* Browser.stop() has returned the subprocess is not alive and both
\* directories are deleted.
C9_StopLeavesNoProcessNoDirs ==
    /\ ChromeStopReturned => chrome_process = "exited"
    /\ BrowserStopReturned =>
          /\ chrome_process /= "alive"
          /\ ~home_dir
          /\ ~data_dir

\* witness of C9: Browser.stop has returned after Chrome.stop went through
\* repeated SIGTERMs and the SIGKILL at 300 seconds
C9_Witness ==
    /\ BrowserStopReturned
    /\ killed
    /\ sigterms > 1
    /\ _work_dir = "None"

\* C10 as stated: once start() has failed by the startup timeout, no
\* subprocess is alive.
C10_NoProcessAfterFailedStart ==
    StartTimedOut => chrome_process /= "alive"

\* C10 as amended: when start() fails by the startup timeout the subprocess
\* is not killed and can still be alive, but the Browser keeps its Chrome
\* instance, and once a stop() called after that failure has returned the
\* subprocess is not alive.
C10_FailedStartReapedByStop ==
    /\ StartTimedOut => (_chrome_instance = "Chrome" /\ chrome_process /= "unset")
    /\ (BrowserStopReturned /\ startHow = "timeout") => chrome_process = "exited"

\* witness of C10: start failed by the timeout, and the stop() that followed
\* has returned and had a live subprocess to terminate
C10_Witness ==
    /\ BrowserStopReturned
    /\ startHow = "timeout"
    /\ sigterms >= 1
    /\ chrome_process = "exited"

\* C13: stop() never raises, in whatever state the Browser is (never
\* started, started, start failed, already stopped), and once it has
\* returned the Browser has no Chrome instance and no work directory.
C13_StopIdempotent ==
    /\ lastCall /= "stop_raised"
    /\ BrowserStopReturned => (_chrome_instance = "None" /\ _work_dir = "None")

(***************************************************************************)
(* Claims about the event handlers                                         *)
(***************************************************************************)
\* the url matches ^data: without regard to letter case
IsDataUrl(u) ==
    /\ Len(u) >= 5
    /\ u[1] \in {"d", "D"}
    /\ u[2] \in {"a", "A"}
    /\ u[3] \in {"t", "T"}
    /\ u[4] \in {"a", "A"}
    /\ u[5] = ":"

\* C14: for a Network.requestWillBeSent event whose url begins with data: in
\* any letter case on_request is not called; for any other url it is called
\* exactly when it is set; and in both cases the Behavior, if there is one,
\* is notified of activity.
C14_DataUrlsNotForwarded ==
    [][reqToggle' /= reqToggle =>
        /\ IsDataUrl(reqUrl') => ~reqForwarded'
        /\ ~IsDataUrl(reqUrl') => (reqForwarded' <=> on_request)
        /\ reqNotified' <=> (_behavior /= "None")
      ]_vars

\* witness of C14: with on_request set and a Behavior active, an event with
\* the url DATA: was handled: not forwarded, the Behavior notified
C14_Witness ==
    /\ reqUrl = <<"D", "A", "T", "A", ":">>
    /\ on_request
    /\ ~reqForwarded
    /\ reqNotified
    /\ _behavior /= "None"

====
